---- MODULE Spec2Model ----
(***************************************************************************)
(* The pose-to-servo pipeline of demos/camera.js and demos/demo_util.js:   *)
(* the per-frame producer (poseDetectionFrame), the three sample buffers   *)
(* (left_angles, right_angles, faceYaws) and the three setInterval         *)
(* consumers started by startServo.                                        *)
(*                                                                         *)
(* JavaScript runs every callback to completion, so each callback is one   *)
(* action.  poseDetectionFrame only awaits before it reads the poses; the  *)
(* part after the last await (camera.js:261-343) is one synchronous run.   *)
(***************************************************************************)
EXTENDS Integers, Sequences, FiniteSets

VARIABLES
  connected,     \* obniz.onconnect has run (camera.js:358)
  status,        \* servo.status of the three servos (camera.js:363-369)
  left_angles,   \* camera.js:31
  right_angles,  \* camera.js:32
  faceYaws,      \* camera.js:33
  nframes,       \* how many frames poseDetectionFrame has processed (bounded)
  appended,      \* history: samples pushed to each buffer so far
  consumed,      \* history: samples handed to median() so far, per buffer
  obs,           \* history: what the most recent callback did
  input,         \* argument of a pure function under test
  output         \* its result

vars == <<connected, status, left_angles, right_angles, faceYaws, nframes,
          appended, consumed, obs, input, output>>

None == [op |-> "none"]

-----------------------------------------------------------------------------
(* JavaScript numbers.  A finite number is kept in half units, so that the  *)
(* average of two integers is exact: Num(h) is the number h/2.              *)

Num(h) == [k |-> "num", v |-> h]
Deg(d) == Num(2 * d)
NaN == [k |-> "nan", v |-> 0]
Infinity == [k |-> "inf", v |-> 1]
NegInfinity == [k |-> "inf", v |-> -1]

IsNum(a) == a.k = "num"
IsNaN(a) == a.k = "nan"

AbsInt(i) == IF i < 0 THEN -i ELSE i

\* a + b
Add(a, b) ==
  CASE IsNaN(a) \/ IsNaN(b) -> NaN
    [] IsNum(a) /\ IsNum(b) -> Num(a.v + b.v)
    [] IsNum(a) -> b
    [] IsNum(b) -> a
    [] OTHER -> IF a.v = b.v THEN a ELSE NaN

\* -a
Neg(a) ==
  CASE IsNaN(a) -> NaN
    [] IsNum(a) -> Num(-a.v)
    [] OTHER -> [k |-> "inf", v |-> -a.v]

\* a - b
Sub(a, b) == Add(a, Neg(b))

\* a / 2, for the numbers whose half is a multiple of 1/2
Half(a) ==
  CASE IsNum(a) /\ a.v % 2 = 0 -> Num(a.v \div 2)
    [] ~IsNum(a) -> a

\* Math.abs(a)
Abs(a) ==
  CASE IsNaN(a) -> NaN
    [] IsNum(a) -> Num(AbsInt(a.v))
    [] OTHER -> Infinity

\* a > b: false when either is NaN
Greater(a, b) ==
  CASE IsNaN(a) \/ IsNaN(b) -> FALSE
    [] IsNum(a) /\ IsNum(b) -> a.v > b.v
    [] IsNum(a) -> b.v < 0
    [] IsNum(b) -> a.v > 0
    [] OTHER -> a.v > b.v

\* a < b
Less(a, b) == Greater(b, a)

-----------------------------------------------------------------------------
(* Number::toString, as the sequence of UTF-16 code units, which is what    *)
(* Array.prototype.sort() without a comparator orders by.                   *)

RECURSIVE Digits(_)
Digits(n) ==
  IF n < 10 THEN <<48 + n>> ELSE Digits(n \div 10) \o <<48 + (n % 10)>>

NumberToString(a) ==
  CASE IsNaN(a) -> <<78, 97, 78>>
    [] IsNum(a) ->
         (IF a.v < 0 THEN <<45>> ELSE <<>>)
           \o Digits(AbsInt(a.v) \div 2)
           \o (IF AbsInt(a.v) % 2 = 1 THEN <<46, 53>> ELSE <<>>)
    [] OTHER ->
         (IF a.v < 0 THEN <<45>> ELSE <<>>)
           \o <<73, 110, 102, 105, 110, 105, 116, 121>>

\* s < t for strings: the first differing code unit decides, a proper prefix
\* is smaller
RECURSIVE StrLess(_, _)
StrLess(s, t) ==
  IF t = <<>> THEN FALSE
  ELSE IF s = <<>> THEN TRUE
  ELSE IF Head(s) # Head(t) THEN Head(s) < Head(t)
  ELSE StrLess(Tail(s), Tail(t))

\* the comparison sort() applies when no comparefn is given
SortCompareLess(x, y) == StrLess(NumberToString(x), NumberToString(y))

RECURSIVE InsertSorted(_, _)
InsertSorted(x, s) ==
  IF s = <<>> THEN <<x>>
  ELSE IF SortCompareLess(x, Head(s)) THEN <<x>> \o s
  ELSE <<Head(s)>> \o InsertSorted(x, Tail(s))

\* sorted.sort() of camera.js:434
RECURSIVE sort(_)
sort(list) ==
  IF list = <<>> THEN <<>>
  ELSE InsertSorted(list[Len(list)], sort(SubSeq(list, 1, Len(list) - 1)))

\* median(list) of camera.js:431-440 (JavaScript indexes from 0)
median(list) ==
  LET half == Len(list) \div 2
      sorted == sort(list)
  IN  IF Len(list) = 0 THEN NaN
      ELSE IF Len(sorted) % 2 = 1 THEN sorted[half + 1]
      ELSE Half(Add(sorted[half], sorted[half + 1]))

-----------------------------------------------------------------------------
(* Poses.  A keypoint is [score, position]; a pose is [score, keypoints],   *)
(* keypoints indexed by PoseNet's part ids.  Scores are in hundredths,      *)
(* positions in whole pixels.                                               *)

Parts == 0 .. 16

Vec(x, y) == [x |-> x, y |-> y]

SetMin(S) == CHOOSE m \in S : \A e \in S : m <= e
SetMax(S) == CHOOSE m \in S : \A e \in S : m >= e

\* posenet.getBoundingBox(keypoints), called at demo_util.js:94
getBoundingBox(keypoints) ==
  LET xs == {keypoints[i].position.x : i \in DOMAIN keypoints}
      ys == {keypoints[i].position.y : i \in DOMAIN keypoints}
  IN  [minX |-> SetMin(xs), maxX |-> SetMax(xs),
       minY |-> SetMin(ys), maxY |-> SetMax(ys)]

\* demo_util.js:93-96
getBoundingBoxSize(keypoints) ==
  LET boundingBox == getBoundingBox(keypoints)
  IN  (boundingBox.maxX - boundingBox.minX) * (boundingBox.maxY - boundingBox.minY)

-----------------------------------------------------------------------------
(* Keypoint availability gates, demo_util.js:188-250.                       *)

\* keypoints[i].score > minConfidence
Above(keypoints, i, minConfidence) == keypoints[i].score > minConfidence

\* an arms gate that tests only the shoulder of the side itself
existsArmsOwnShoulder(keypoints, minConfidence) ==
  [left |-> Above(keypoints, 5, minConfidence) /\ Above(keypoints, 7, minConfidence),
   right |-> Above(keypoints, 6, minConfidence) /\ Above(keypoints, 8, minConfidence)]

\* demo_util.js:188-207
existsArms(keypoints, minConfidence) ==
  IF Above(keypoints, 5, minConfidence) /\ Above(keypoints, 6, minConfidence)
     /\ Above(keypoints, 7, minConfidence) /\ Above(keypoints, 8, minConfidence)
  THEN [left |-> TRUE, right |-> TRUE]
  ELSE IF Above(keypoints, 5, minConfidence) /\ Above(keypoints, 6, minConfidence)
          /\ Above(keypoints, 7, minConfidence)
  THEN [left |-> TRUE, right |-> FALSE]
  ELSE IF Above(keypoints, 5, minConfidence) /\ Above(keypoints, 6, minConfidence)
          /\ Above(keypoints, 8, minConfidence)
  THEN [left |-> FALSE, right |-> TRUE]
  ELSE [left |-> FALSE, right |-> FALSE]

\* a wrist gate whose right side compares the wrong way round
existWritstReversed(keypoints, minConfidence) ==
  [left |-> Above(keypoints, 9, minConfidence),
   right |-> keypoints[10].score < minConfidence]

\* demo_util.js:209-219
existWritst(keypoints, minConfidence) ==
  IF Above(keypoints, 9, minConfidence) /\ Above(keypoints, 10, minConfidence)
  THEN [left |-> TRUE, right |-> TRUE]
  ELSE IF Above(keypoints, 9, minConfidence)
  THEN [left |-> TRUE, right |-> FALSE]
  ELSE IF Above(keypoints, 10, minConfidence)
  THEN [left |-> FALSE, right |-> TRUE]
  ELSE [left |-> FALSE, right |-> FALSE]

\* demo_util.js:221-233
existsEyeAndNose(keypoints, minConfidence) ==
  IF Above(keypoints, 0, minConfidence) /\ Above(keypoints, 1, minConfidence)
     /\ Above(keypoints, 2, minConfidence)
  THEN TRUE
  ELSE FALSE

\* demo_util.js:235-250
existsNoseAndEyeAndEar(keypoints, minConfidence) ==
  IF Above(keypoints, 0, minConfidence) /\ Above(keypoints, 1, minConfidence)
     /\ Above(keypoints, 2, minConfidence)
  THEN IF Above(keypoints, 3, minConfidence) /\ Above(keypoints, 4, minConfidence)
       THEN [left |-> TRUE, right |-> TRUE]
       ELSE IF Above(keypoints, 3, minConfidence)
       THEN [left |-> TRUE, right |-> FALSE]
       ELSE IF Above(keypoints, 4, minConfidence)
       THEN [left |-> FALSE, right |-> TRUE]
       ELSE [left |-> FALSE, right |-> FALSE]
  ELSE [left |-> FALSE, right |-> FALSE]

-----------------------------------------------------------------------------
(* Vector geometry, demo_util.js:252-391, in exact arithmetic.  Positions   *)
(* are integers; the operators are defined on the vectors whose norm and    *)
(* angle are exact (a whole norm, an angle that is a multiple of 45), and   *)
(* the poses of the model are chosen among those.                           *)

\* the whole square root of a perfect square
RECURSIVE SqrtBetween(_, _, _)
SqrtBetween(n, lo, hi) ==
  IF lo = hi THEN lo
  ELSE LET mid == (lo + hi + 1) \div 2
       IN  IF mid * mid <= n THEN SqrtBetween(n, mid, hi)
           ELSE SqrtBetween(n, lo, mid - 1)

\* Math.sqrt(n), for perfect squares
Sqrt(n) ==
  LET r == SqrtBetween(n, 0, n)
  IN  CASE r * r = n -> r

\* norm(vector), demo_util.js:389-391
norm(vector) == Sqrt(vector.x * vector.x + vector.y * vector.y)

\* rotateVector(vector, degree), demo_util.js:372-380, for the one degree
\* the program passes: cos = 0 and sin = 1
rotateVector(vector, degree) ==
  CASE degree = 90 -> Vec(0 - vector.y, vector.x)

\* calculateAngle(vectorA, vectorB), demo_util.js:382-387.  A zero vector
\* makes cos = 0/0 = NaN, and Math.acos(NaN) is NaN.
calculateAngle(vectorA, vectorB) ==
  LET dot == vectorA.x * vectorB.x + vectorA.y * vectorB.y
      nn == (vectorA.x * vectorA.x + vectorA.y * vectorA.y)
              * (vectorB.x * vectorB.x + vectorB.y * vectorB.y)
  IN  CASE nn = 0 -> NaN
        [] nn # 0 /\ dot = 0 -> Deg(90)
        [] nn # 0 /\ dot > 0 /\ dot * dot = nn -> Deg(0)
        [] nn # 0 /\ dot < 0 /\ dot * dot = nn -> Deg(180)
        [] nn # 0 /\ dot > 0 /\ 2 * dot * dot = nn -> Deg(45)
        [] nn # 0 /\ dot < 0 /\ 2 * dot * dot = nn -> Deg(135)

\* demo_util.js:304-310
getShoulderLine(keypoints) ==
  LET leftShoulder == keypoints[5].position
      rightShoulder == keypoints[6].position
  IN  Vec(leftShoulder.x - rightShoulder.x, leftShoulder.y - rightShoulder.y)

\* demo_util.js:312-331
getUpperArmLine(keypoints) ==
  LET leftShoulder == keypoints[5].position
      rightShoulder == keypoints[6].position
      leftElbow == keypoints[7].position
      rightElbow == keypoints[8].position
  IN  [left |-> Vec(leftElbow.x - leftShoulder.x, leftElbow.y - leftShoulder.y),
       right |-> Vec(rightElbow.x - rightShoulder.x, rightElbow.y - rightShoulder.y)]

\* demo_util.js:333-340
getArmsAngle(keypoints) ==
  LET shoulderLine == getShoulderLine(keypoints)
      upperArmLine == getUpperArmLine(keypoints)
  IN  [left |-> calculateAngle(rotateVector(shoulderLine, 90), upperArmLine.left),
       right |-> calculateAngle(rotateVector(shoulderLine, 90), upperArmLine.right)]

\* demo_util.js:342-361
getWristLine(keypoints) ==
  LET leftShoulder == keypoints[5].position
      rightShoulder == keypoints[6].position
      leftWrist == keypoints[9].position
      rightWrist == keypoints[10].position
  IN  [left |-> Vec(leftWrist.x - leftShoulder.x, leftWrist.y - leftShoulder.y),
       right |-> Vec(rightWrist.x - rightShoulder.x, rightWrist.y - rightShoulder.y)]

\* demo_util.js:363-370
getWristAngle(keypoints) ==
  LET shoulderLine == getShoulderLine(keypoints)
      wristLine == getWristLine(keypoints)
  IN  [left |-> calculateAngle(rotateVector(shoulderLine, 90), wristLine.left),
       right |-> calculateAngle(rotateVector(shoulderLine, 90), wristLine.right)]

\* a face yaw whose numerator is the x distance of the nose alone
getFaceYawNoseXOnly(keypoints) ==
  LET nose == keypoints[0].position
      leftEye == keypoints[1].position
      rightEye == keypoints[2].position
      eyeVector == Vec(rightEye.x - leftEye.x, rightEye.y - leftEye.y)
      n1 == AbsInt(nose.x - leftEye.x)
      n2 == norm(eyeVector)
  IN  CASE n2 = 0 /\ n1 = 0 -> NaN
        [] n2 = 0 /\ n1 # 0 -> NegInfinity
        [] n2 # 0 /\ (360 * n1) % n2 = 0 -> Num(360 - (360 * n1) \div n2)

\* getFaceYaw(keypoints), demo_util.js:252-267.  ratio is a quotient of two
\* norms: 0/0 is NaN, n/0 is Infinity, and 180 - Infinity * 180 is -Infinity.
getFaceYaw(keypoints) ==
  LET nose == keypoints[0].position
      leftEye == keypoints[1].position
      rightEye == keypoints[2].position
      eyeVector == Vec(rightEye.x - leftEye.x, rightEye.y - leftEye.y)
      eyeToNoseVector == Vec(nose.x - leftEye.x, eyeVector.y)
      n1 == norm(eyeToNoseVector)
      n2 == norm(eyeVector)
  IN  CASE n2 = 0 /\ n1 = 0 -> NaN
        [] n2 = 0 /\ n1 # 0 -> NegInfinity
        [] n2 # 0 /\ (360 * n1) % n2 = 0 -> Num(360 - (360 * n1) \div n2)

-----------------------------------------------------------------------------
(* The frame producer: poseDetectionFrame, camera.js:239-338.               *)

\* a selection that forgets the score test
confidentPosesUnfiltered(poses, minPoseConfidence) == poses

\* camera.js:275-280
confidentPosesOf(poses, minPoseConfidence) ==
  SelectSeq(poses, LAMBDA elm : elm.score >= minPoseConfidence)

\* the loop of camera.js:297-303, from its i-th iteration on
RECURSIVE LargestFrom(_, _, _, _)
LargestFrom(confidentPoses, i, maxSize, maxPose) ==
  IF i > Len(confidentPoses) THEN maxPose
  ELSE LET pose == confidentPoses[i]
           size == getBoundingBoxSize(pose.keypoints)
       IN  IF size > maxSize
           THEN LargestFrom(confidentPoses, i + 1, size, pose)
           ELSE LargestFrom(confidentPoses, i + 1, maxSize, maxPose)

\* camera.js:295-303: maxSize starts at 0 and maxPose undefined
maxPoseOf(confidentPoses) == LargestFrom(confidentPoses, 1, 0, None)

\* camera.js:315
offset == 30

\* a left-arm push that looks at the upper arm only
leftPushesArmOnly(maxPose, minPartConfidence) ==
  IF existsArms(maxPose.keypoints, minPartConfidence).left
  THEN <<Add(getArmsAngle(maxPose.keypoints).left, Deg(offset))>>
  ELSE <<>>

\* camera.js:316-323: what the frame pushes to left_angles
leftPushes(maxPose, minPartConfidence) ==
  IF existsArms(maxPose.keypoints, minPartConfidence).left
  THEN LET angles == getArmsAngle(maxPose.keypoints)
           wristAngles == getWristAngle(maxPose.keypoints)
       IN  IF Less(angles.left, wristAngles.left)
           THEN <<Add(wristAngles.left, Deg(offset))>>
           ELSE <<Add(angles.left, Deg(offset))>>
  ELSE <<>>

\* a right-arm push behind the left side's gate
rightPushesOnLeftGate(maxPose, minPartConfidence) ==
  IF existsArms(maxPose.keypoints, minPartConfidence).left
  THEN <<Sub(Sub(Deg(180), getArmsAngle(maxPose.keypoints).right), Deg(offset))>>
  ELSE <<>>

\* camera.js:324-331: what the frame pushes to right_angles
rightPushes(maxPose, minPartConfidence) ==
  IF existsArms(maxPose.keypoints, minPartConfidence).right
  THEN LET angles == getArmsAngle(maxPose.keypoints)
           wristAngles == getWristAngle(maxPose.keypoints)
       IN  IF Less(angles.right, wristAngles.right)
           THEN <<Sub(Sub(Deg(180), wristAngles.right), Deg(offset))>>
           ELSE <<Sub(Sub(Deg(180), angles.right), Deg(offset))>>
  ELSE <<>>

\* camera.js:334-337: what the frame pushes to faceYaws
faceYawPushes(maxPose, minPartConfidence) ==
  IF existsEyeAndNose(maxPose.keypoints, minPartConfidence)
  THEN <<getFaceYaw(maxPose.keypoints)>>
  ELSE <<>>

\* guiState.singlePoseDetection / multiPoseDetection, camera.js:94-103,
\* read at camera.js:247-248 and 256-257
minPoseConfidenceOf(algorithm) ==
  IF algorithm = "single-pose" THEN 10 ELSE 15

minPartConfidenceOf(algorithm) ==
  IF algorithm = "single-pose" THEN 50 ELSE 10

-----------------------------------------------------------------------------
(* The poses the estimator hands to the frames of the model.                *)

\* part scores: 5 for the parts in low, 30 for those in mid, 90 otherwise
Scores(low, mid) ==
  [i \in Parts |-> IF i \in low THEN 5 ELSE IF i \in mid THEN 30 ELSE 90]

\* A body with its shoulders level at (300,200) and (200,200): the elbows and
\* wrists are given relative to their shoulder, the right eye relative to the
\* left eye, the nose by its x distance from the left eye.
Body(score, scores, lElbow, rElbow, lWrist, rWrist, eyeVector, noseDx, feetY) ==
  LET leftEye == Vec(160, 100)
      leftShoulder == Vec(300, 200)
      rightShoulder == Vec(200, 200)
      position ==
        [i \in Parts |->
           CASE i = 0 -> Vec(leftEye.x + noseDx, leftEye.y + 30)
             [] i = 1 -> leftEye
             [] i = 2 -> Vec(leftEye.x + eyeVector.x, leftEye.y + eyeVector.y)
             [] i = 3 -> Vec(150, 100)
             [] i = 4 -> Vec(350, 100)
             [] i = 5 -> leftShoulder
             [] i = 6 -> rightShoulder
             [] i = 7 -> Vec(leftShoulder.x + lElbow.x, leftShoulder.y + lElbow.y)
             [] i = 8 -> Vec(rightShoulder.x + rElbow.x, rightShoulder.y + rElbow.y)
             [] i = 9 -> Vec(leftShoulder.x + lWrist.x, leftShoulder.y + lWrist.y)
             [] i = 10 -> Vec(rightShoulder.x + rWrist.x, rightShoulder.y + rWrist.y)
             [] OTHER -> Vec(250, feetY)]
  IN  [score |-> score,
       keypoints |-> [i \in Parts |-> [score |-> scores[i], position |-> position[i]]]]

Down == Vec(0, 60)
Up == Vec(0, -60)
LeftSide == Vec(60, 0)
RightSide == Vec(-60, 0)
LeftDiag == Vec(60, 60)
Zero == Vec(0, 0)
LevelEyes == Vec(180, 0)
TiltedEyes == Vec(108, 144)

\* both arms down, face to the front: the servos' initial angles
PoseRest ==
  Body(90, Scores({}, {}), Down, Down, Down, Down, LevelEyes, 90, 450)
\* left arm straight up, right arm out
PoseLeftUp ==
  Body(80, Scores({}, {}), Up, RightSide, Up, RightSide, LevelEyes, 84, 460)
\* right arm straight up, left elbow not seen
PoseRightUp ==
  Body(70, Scores({7}, {}), Down, Up, Down, Up, LevelEyes, 87, 400)
\* left arm only, nose seen weakly
PoseLeftOnly ==
  Body(60, Scores({8}, {0}), LeftDiag, Down, LeftDiag, Down, LevelEyes, 90, 420)
\* upper arms down, forearms out: the wrist angles are the larger ones
PoseWrist ==
  Body(60, Scores({9, 10}, {}), Down, Down, LeftSide, RightSide, LevelEyes, 85, 420)
\* left elbow on the left shoulder, both eyes on one point
PoseDegenerate ==
  Body(50, Scores({}, {}), Zero, Down, Down, Down, Zero, 90, 440)
\* head tilted: the right eye lower than the left eye
PoseTilted ==
  Body(50, Scores({5}, {}), Down, Down, Down, Down, TiltedEyes, 60, 430)
\* a pose the estimator is not sure of
PoseUnsure ==
  Body(5, Scores({}, {}), Up, Up, Up, Up, LevelEyes, 0, 480)
\* a pose scored exactly minPoseConfidence of multi-pose detection
PoseBorder ==
  Body(15, Scores({0}, {}), LeftSide, RightSide, LeftSide, RightSide, LevelEyes, 90, 410)
\* every keypoint on one horizontal line: a bounding box of area 0
PoseFlat ==
  [score |-> 90,
   keypoints |-> [i \in Parts |->
                    [score |-> 90, position |-> Vec(100 + 10 * i, 200)]]]

Poses ==
  {PoseRest, PoseLeftUp, PoseRightUp, PoseLeftOnly, PoseWrist, PoseDegenerate,
   PoseTilted, PoseUnsure, PoseBorder, PoseFlat}

\* what the estimator returns: estimateSinglePose one pose (camera.js:244-246),
\* estimateMultiplePoses any number of poses (camera.js:251-255)
FramePoses(algorithm) ==
  IF algorithm = "single-pose" THEN {<<p>> : p \in Poses}
  ELSE {<<>>} \cup {<<p>> : p \in Poses}
         \cup {<<PoseRightUp, PoseLeftUp>>, <<PoseLeftUp, PoseRightUp>>,
               <<PoseUnsure, PoseRest>>, <<PoseUnsure>> \o <<PoseUnsure>>,
               <<PoseLeftOnly, PoseWrist>>, <<PoseFlat, PoseBorder>>}

-----------------------------------------------------------------------------
(* State machine.                                                           *)

Servos == {"right", "left", "faceYaw"}

\* the frames the model lets poseDetectionFrame process
MaxFrames == 2

\* the buffer startServo is given for each servo, camera.js:372-374
Buffer(servo) ==
  CASE servo = "right" -> right_angles
    [] servo = "left" -> left_angles
    [] servo = "faceYaw" -> faceYaws

Init ==
  /\ connected = FALSE
  /\ status = [s \in Servos |-> None]
  /\ left_angles = <<>>
  /\ right_angles = <<>>
  /\ faceYaws = <<>>
  /\ nframes = 0
  /\ appended = [s \in Servos |-> 0]
  /\ consumed = [s \in Servos |-> 0]
  /\ obs = None
  /\ input = None
  /\ output = None

\* obniz.onconnect, camera.js:358-376
Connect ==
  /\ ~connected
  /\ connected' = TRUE
  /\ status' = [s \in Servos |->
                  CASE s = "right" -> Deg(150)
                    [] s = "left" -> Deg(30)
                    [] s = "faceYaw" -> Deg(90)]
  /\ obs' = [op |-> "connect"]
  /\ UNCHANGED <<left_angles, right_angles, faceYaws, nframes, appended,
                 consumed, input, output>>

\* a deadband test that also lets a difference of exactly 5 through
exceedsDeadbandAtFive(servoStatus, med) ==
  \/ Greater(Abs(Sub(servoStatus, med)), Deg(5))
  \/ Abs(Sub(servoStatus, med)) = Deg(5)

\* camera.js:422: Math.abs(servo.status - med) > 5
exceedsDeadband(servoStatus, med) ==
  Greater(Abs(Sub(servoStatus, med)), Deg(5))

\* camera.js:424: the argument of servo.angle(...)
angleArgument(med) == med

\* angles.splice(0, 1): only the oldest sample is removed
spliceFirst(angles) == Tail(angles)

\* camera.js:426: angles.splice(0) leaves the array empty
splice0(angles) == <<>>

\* three timers emptying one shared array
arrayAfterTickShared(owner, servo, array, after) == after

\* camera.js:426 with camera.js:372-374: the callback splices the array its
\* own startServo call was given; the arrays of the other servos stay
arrayAfterTick(owner, servo, array, after) ==
  IF servo = owner THEN after ELSE array

\* one run of the setInterval callback of startServo, camera.js:419-428
Tick(servo) ==
  /\ connected
  /\ LET angles == Buffer(servo)
     IN  IF Len(angles) > 0
         THEN LET med == median(angles)
                  commands == exceedsDeadband(status[servo], med)
                  after == splice0(angles)
              IN  /\ obs' = [op |-> "tick", servo |-> servo, angles |-> angles,
                             med |-> med, statusBefore |-> status[servo],
                             command |-> IF commands THEN <<angleArgument(med)>>
                                         ELSE <<>>]
                  /\ status' = status
                  /\ consumed' = [consumed EXCEPT ![servo] = @ + Len(angles)]
                  /\ left_angles' = arrayAfterTick("left", servo, left_angles, after)
                  /\ right_angles' = arrayAfterTick("right", servo, right_angles, after)
                  /\ faceYaws' = arrayAfterTick("faceYaw", servo, faceYaws, after)
         ELSE /\ obs' = [op |-> "tick", servo |-> servo, angles |-> angles,
                         med |-> None, statusBefore |-> status[servo],
                         command |-> <<>>]
              /\ UNCHANGED <<status, consumed, left_angles, right_angles, faceYaws>>
  /\ UNCHANGED <<connected, nframes, appended, input, output>>

\* what the synchronous part of poseDetectionFrame computes from the poses,
\* camera.js:275-338: the selected pose and the samples it pushes
FrameResult(algorithm, poses) ==
  LET minPoseConfidence == minPoseConfidenceOf(algorithm)
      minPartConfidence == minPartConfidenceOf(algorithm)
      confidentPoses == confidentPosesOf(poses, minPoseConfidence)
      maxPose == maxPoseOf(confidentPoses)
  IN  IF maxPose # None
      THEN [maxPose |-> maxPose,
            left |-> leftPushes(maxPose, minPartConfidence),
            right |-> rightPushes(maxPose, minPartConfidence),
            faceYaw |-> faceYawPushes(maxPose, minPartConfidence)]
      ELSE [maxPose |-> maxPose, left |-> <<>>, right |-> <<>>, faceYaw |-> <<>>]

Algorithms == {"single-pose", "multi-pose"}

\* FrameResult of every frame of the model, computed once
FrameResults ==
  [algorithm \in Algorithms |->
     [poses \in FramePoses(algorithm) |-> FrameResult(algorithm, poses)]]

\* the synchronous part of poseDetectionFrame after the poses are estimated,
\* camera.js:261-343
Frame(algorithm, poses) ==
  /\ nframes < MaxFrames
  /\ LET result == FrameResults[algorithm][poses]
     IN  /\ left_angles' = left_angles \o result.left
         /\ right_angles' = right_angles \o result.right
         /\ faceYaws' = faceYaws \o result.faceYaw
         /\ appended' = [appended EXCEPT !["left"] = @ + Len(result.left),
                                         !["right"] = @ + Len(result.right),
                                         !["faceYaw"] = @ + Len(result.faceYaw)]
         /\ obs' = [op |-> "frame", algorithm |-> algorithm, poses |-> poses,
                    maxPose |-> result.maxPose,
                    before |-> [left |-> left_angles, right |-> right_angles,
                                faceYaw |-> faceYaws,
                                status |-> status]]
  /\ nframes' = nframes + 1
  /\ UNCHANGED <<connected, status, consumed, input, output>>

Next ==
  \/ Connect
  \/ \E servo \in Servos : Tick(servo)
  \/ \E algorithm \in Algorithms :
       \E poses \in FramePoses(algorithm) : Frame(algorithm, poses)

Spec == Init /\ [][Next]_vars

-----------------------------------------------------------------------------
(* median() on its own: the list is drawn first, then median is applied.    *)

\* the longest list handed to median
MaxLen == 4

MedianValues ==
  {Deg(-100), Deg(-10), Deg(-5), Deg(5), Deg(10), Deg(20), Deg(30), Deg(40),
   Deg(100)}

ListsUpTo(S, n) == UNION {[1 .. k -> S] : k \in 1 .. n}

Idle ==
  /\ connected = FALSE
  /\ status = [s \in Servos |-> None]
  /\ left_angles = <<>>
  /\ right_angles = <<>>
  /\ faceYaws = <<>>
  /\ nframes = 0
  /\ appended = [s \in Servos |-> 0]
  /\ consumed = [s \in Servos |-> 0]
  /\ obs = None

InitMedian ==
  /\ Idle
  /\ input \in [list : ListsUpTo(MedianValues, MaxLen)]
  /\ output = None

CallMedian ==
  /\ output = None
  /\ output' = [fn |-> "median", ret |-> median(input.list)]
  /\ UNCHANGED <<connected, status, left_angles, right_angles, faceYaws, nframes,
                 appended, consumed, obs, input>>

NextMedian == CallMedian

SpecMedian == InitMedian /\ [][NextMedian]_vars

-----------------------------------------------------------------------------
(* The gates on their own: the part scores and two thresholds t1 <= t2 are  *)
(* drawn first, then one gate is applied at both thresholds.                *)

\* part scores and thresholds range over 0 .. MaxScore
MaxScore == 2

ArmParts == 5 .. 10

\* score assignments: the arm parts vary freely while the other parts share
\* one score, or the other way round
ScoreAssignments ==
  LET Levels == 0 .. MaxScore
      Free(S) == [S -> Levels]
  IN  {[i \in Parts |-> IF i \in ArmParts THEN f[i] ELSE c] :
         f \in Free(ArmParts), c \in Levels}
      \cup {[i \in Parts |-> IF i \in 0 .. 4 THEN f[i] ELSE c] :
              f \in Free(0 .. 4), c \in Levels}

KeypointsOf(scores) ==
  [i \in Parts |-> [score |-> scores[i], position |-> Zero]]

InitGates ==
  /\ Idle
  /\ input \in {in \in [scores : ScoreAssignments, t1 : 0 .. MaxScore,
                        t2 : 0 .. MaxScore] : in.t1 <= in.t2}
  /\ output = None

\* existsEyeAndNose returns a boolean; as a record it reads like the others
Both(b) == [left |-> b, right |-> b]

GateResult(fn, keypoints, minConfidence) ==
  CASE fn = "existsArms" -> existsArms(keypoints, minConfidence)
    [] fn = "existWritst" -> existWritst(keypoints, minConfidence)
    [] fn = "existsEyeAndNose" -> Both(existsEyeAndNose(keypoints, minConfidence))
    [] fn = "existsNoseAndEyeAndEar" ->
         existsNoseAndEyeAndEar(keypoints, minConfidence)

CallGate(fn) ==
  /\ output = None
  /\ output' = [fn |-> fn,
                at1 |-> GateResult(fn, KeypointsOf(input.scores), input.t1),
                at2 |-> GateResult(fn, KeypointsOf(input.scores), input.t2)]
  /\ UNCHANGED <<connected, status, left_angles, right_angles, faceYaws, nframes,
                 appended, consumed, obs, input>>

CallExistsArms == CallGate("existsArms")
CallExistWritst == CallGate("existWritst")
CallExistsEyeAndNose == CallGate("existsEyeAndNose")
CallExistsNoseAndEyeAndEar == CallGate("existsNoseAndEyeAndEar")

NextGates ==
  \/ CallExistsArms
  \/ CallExistWritst
  \/ CallExistsEyeAndNose
  \/ CallExistsNoseAndEyeAndEar

SpecGates == InitGates /\ [][NextGates]_vars

-----------------------------------------------------------------------------
(* getFaceYaw on its own: the positions of the nose and the eyes are drawn  *)
(* first, then getFaceYaw is applied.  The eye vectors have norm 180 (or    *)
(* 0), the nose offsets are those that make norm(eyeToNoseVector) whole.    *)

EyeVectors ==
  {Vec(180, 0), Vec(-180, 0), Vec(0, 180), Vec(108, 144), Vec(108, -144),
   Vec(144, 108), Vec(-144, 108), Zero}

NoseDxs ==
  {-192, -144, -108, -81, -60, -45, 0, 42, 45, 60, 75, 81, 84, 85, 87, 90, 96,
   108, 135, 144, 180, 192}

IsSquare(n) == SqrtBetween(n, 0, n) * SqrtBetween(n, 0, n) = n

YawInputs ==
  {in \in [leftEye : {Zero, Vec(160, 100)}, eyeVector : EyeVectors,
           noseDx : NoseDxs, noseDy : {-30, 0, 30}] :
     IsSquare(in.noseDx * in.noseDx + in.eyeVector.y * in.eyeVector.y)}

FaceOf(in) ==
  [i \in Parts |->
     [score |-> 90,
      position |->
        CASE i = 0 -> Vec(in.leftEye.x + in.noseDx, in.leftEye.y + in.noseDy)
          [] i = 1 -> in.leftEye
          [] i = 2 -> Vec(in.leftEye.x + in.eyeVector.x,
                          in.leftEye.y + in.eyeVector.y)
          [] OTHER -> Zero]]

InitYaw ==
  /\ Idle
  /\ input \in YawInputs
  /\ output = None

CallGetFaceYaw ==
  /\ output = None
  /\ output' = [fn |-> "getFaceYaw", ret |-> getFaceYaw(FaceOf(input))]
  /\ UNCHANGED <<connected, status, left_angles, right_angles, faceYaws, nframes,
                 appended, consumed, obs, input>>

NextYaw == CallGetFaceYaw

SpecYaw == InitYaw /\ [][NextYaw]_vars

-----------------------------------------------------------------------------
(* Properties.                                                              *)

IsTick == obs.op = "tick"
IsFrame == obs.op = "frame"

\* C1: every angle a tick passes to servo.angle lies in [0,180].
C1_CommandedAngleInRange ==
  IsTick =>
    \A i \in 1 .. Len(obs.command) :
      /\ IsNum(obs.command[i])
      /\ obs.command[i].v >= Deg(0).v
      /\ obs.command[i].v <= Deg(180).v

\* C2: after a tick that commands a servo, servo.status is the commanded
\* angle.
C2_StatusIsLastCommand ==
  (IsTick /\ obs.command # <<>>) => status[obs.servo] = obs.command[1]

\* |a - b| > 5 degrees, on the numbers themselves
FartherThanFive(a, b) ==
  CASE IsNaN(a) \/ IsNaN(b) -> FALSE
    [] IsNum(a) /\ IsNum(b) -> AbsInt(a.v - b.v) > 10
    [] OTHER -> TRUE

\* C3: a tick commands the servo if and only if its buffer is not empty and
\* the median of the buffer is more than 5 away from servo.status, and the
\* command is the median: from 90, a median of 93 or 95 commands nothing and
\* a median of 96 commands 96.
C3_DeadbandDecides ==
  IsTick =>
    /\ (obs.command # <<>>) <=>
         (obs.angles # <<>> /\ FartherThanFive(obs.statusBefore, median(obs.angles)))
    /\ obs.command # <<>> => obs.command = <<median(obs.angles)>>
    /\ (obs.statusBefore = Deg(90) /\ obs.med \in {Deg(93), Deg(95)})
         => obs.command = <<>>
    /\ (obs.statusBefore = Deg(90) /\ obs.med = Deg(96))
         => obs.command = <<Deg(96)>>

\* C3: a tick that found a median of exactly 95 with the servo at 90
W3_SuppressedAtFive ==
  /\ IsTick
  /\ obs.statusBefore = Deg(90)
  /\ obs.angles # <<>>
  /\ obs.med = Deg(95)
  /\ obs.command = <<>>

\* the list in ascending numeric order
RECURSIVE InsertNumeric(_, _)
InsertNumeric(x, s) ==
  IF s = <<>> THEN <<x>>
  ELSE IF x.v < Head(s).v THEN <<x>> \o s
  ELSE <<Head(s)>> \o InsertNumeric(x, Tail(s))

RECURSIVE NumericSort(_)
NumericSort(list) ==
  IF list = <<>> THEN <<>>
  ELSE InsertNumeric(list[Len(list)], NumericSort(SubSeq(list, 1, Len(list) - 1)))

\* the numerical median of a non-empty list of finite numbers
NumericMedian(list) ==
  LET sorted == NumericSort(list)
      half == Len(list) \div 2
  IN  IF Len(list) % 2 = 1 THEN sorted[half + 1]
      ELSE Num((sorted[half].v + sorted[half + 1].v) \div 2)

\* C4: median(list) is the numerical median of the list.
C4_MedianIsNumeric ==
  output # None => output.ret = NumericMedian(input.list)

\* C5: every sample pushed to a buffer is handed to median exactly once, by
\* the first tick after it: pushed = handed over + still buffered, a tick
\* leaves its buffer empty, and a tick that finds it empty commands nothing.
C5_DrainExactlyOnce ==
  /\ \A s \in Servos : appended[s] = consumed[s] + Len(Buffer(s))
  /\ IsTick => Buffer(obs.servo) = <<>>
  /\ IsTick => consumed[obs.servo] = appended[obs.servo]
  /\ (IsTick /\ obs.angles = <<>>) => obs.command = <<>>

\* C5: a tick that drained the samples of two frames at once
W5_DrainedTwo ==
  /\ IsTick
  /\ Len(obs.angles) = 2
  /\ consumed[obs.servo] = 2
  /\ Buffer(obs.servo) = <<>>

\* the poses of a frame that reach minPoseConfidence, by position in the frame
ConfidentAt(poses, minPoseConfidence) ==
  {i \in 1 .. Len(poses) : poses[i].score >= minPoseConfidence}

\* the first pose of the frame among the confident poses of the largest area
FirstLargest(poses, minPoseConfidence) ==
  LET C == ConfidentAt(poses, minPoseConfidence)
      area(i) == getBoundingBoxSize(poses[i].keypoints)
      best == {i \in C : \A j \in C : area(i) >= area(j)}
  IN  IF C = {} THEN None ELSE poses[SetMin(best)]

\* C6: the pose a frame selects is the first of the confident poses of the
\* largest bounding-box area, and some pose is selected whenever a confident
\* pose exists.
C6_FirstLargestSelected ==
  IsFrame =>
    obs.maxPose = FirstLargest(obs.poses, minPoseConfidenceOf(obs.algorithm))

NoConfidentPose ==
  ConfidentAt(obs.poses, minPoseConfidenceOf(obs.algorithm)) = {}

\* C7: a frame without a confident pose changes no buffer and no servo
\* state, and the tick that follows it drains what earlier frames buffered
\* and decides its command on it.
C7_UnsureFrameAppendsNothing ==
  [][/\ (obs'.op = "frame" /\ obs' # obs
           /\ ConfidentAt(obs'.poses, minPoseConfidenceOf(obs'.algorithm)) = {})
          => UNCHANGED <<left_angles, right_angles, faceYaws, status>>
     /\ \A s \in Servos :
          (IsFrame /\ NoConfidentPose /\ obs'.op = "tick" /\ obs'.servo = s)
            => /\ obs'.angles = Buffer(s)
               /\ Buffer(s)' = <<>>
               /\ (obs'.command # <<>>) <=>
                    (Buffer(s) # <<>>
                       /\ FartherThanFive(status[s], median(Buffer(s))))
    ]_vars

\* C7: a frame whose only pose is below minPoseConfidence, with a sample of
\* an earlier frame still buffered
W7_UnsureFrameOverBufferedSample ==
  /\ IsFrame
  /\ obs.poses # <<>>
  /\ NoConfidentPose
  /\ left_angles # <<>>
  /\ left_angles = obs.before.left

\* C8: existsArms reports left exactly when both shoulders and the left elbow
\* are above the threshold, right exactly when both shoulders and the right
\* elbow are.
C8_ExistsArmsExact ==
  (output # None /\ output.fn = "existsArms") =>
    LET sc == input.scores
        t == input.t1
    IN  /\ output.at1.left = (sc[5] > t /\ sc[6] > t /\ sc[7] > t)
        /\ output.at1.right = (sc[5] > t /\ sc[6] > t /\ sc[8] > t)

\* C8: left present, right absent because only the right elbow is at the
\* threshold
W8_LeftOnly ==
  /\ output # None
  /\ output.fn = "existsArms"
  /\ output.at1 = [left |-> TRUE, right |-> FALSE]
  /\ input.scores[8] = input.t1
  /\ input.scores[6] > input.t1

\* how many samples a frame may push to a buffer: one if the gate holds
OneIf(gate) == IF gate THEN 1 ELSE 0

IsExtendedBy(before, after, n) ==
  /\ Len(after) = Len(before) + n
  /\ SubSeq(after, 1, Len(before)) = before

\* C9: a frame with a selected pose pushes exactly one sample to left_angles
\* if the arms gate holds for left and none otherwise, the same for
\* right_angles and right, and exactly one to faceYaws if the eyes and nose
\* gate holds and none otherwise.
C9_OneSamplePerOpenGate ==
  (IsFrame /\ obs.maxPose # None) =>
    LET keypoints == obs.maxPose.keypoints
        minPartConfidence == minPartConfidenceOf(obs.algorithm)
        arms == existsArms(keypoints, minPartConfidence)
    IN  /\ IsExtendedBy(obs.before.left, left_angles, OneIf(arms.left))
        /\ IsExtendedBy(obs.before.right, right_angles, OneIf(arms.right))
        /\ IsExtendedBy(obs.before.faceYaw, faceYaws,
                        OneIf(existsEyeAndNose(keypoints, minPartConfidence)))

\* C9: both shoulders and the left elbow above the threshold, the right elbow
\* below: one sample for left, none for right
W9_LeftSampleOnly ==
  /\ IsFrame
  /\ obs.maxPose = PoseLeftOnly
  /\ Len(left_angles) = Len(obs.before.left) + 1
  /\ right_angles = obs.before.right

\* C10: for thresholds t1 <= t2, what a gate reports false at t1 it reports
\* false at t2.
C10_GatesMonotonic ==
  output # None =>
    /\ ~output.at1.left => ~output.at2.left
    /\ ~output.at1.right => ~output.at2.right

\* C10: a gate that is false on one side at the lower of two different
\* thresholds and true on the other side
W10_FalseAtLowerThreshold ==
  /\ output # None
  /\ input.t1 < input.t2
  /\ ~output.at1.left
  /\ output.at1.right
  /\ ~output.at2.left

\* C11: no buffer ever holds a NaN or an infinite sample.
C11_BuffersFinite ==
  \A s \in Servos :
    \A i \in 1 .. Len(Buffer(s)) : IsNum(Buffer(s)[i])

\* the last sample of a buffer
Last(angles) == angles[Len(angles)]

\* the angle a side is measured by: the wrist angle when the arm angle is a
\* number smaller than it, the arm angle in every other case (NaN included)
SideAngle(arm, wrist) ==
  IF IsNum(arm) /\ IsNum(wrist) /\ arm.v < wrist.v THEN wrist ELSE arm

\* a + b degrees, NaN when a is NaN
PlusDeg(a, b) == IF IsNum(a) THEN Num(a.v + 2 * b) ELSE a

\* 150 - a degrees, NaN when a is NaN
MirrorDeg(a) == IF IsNum(a) THEN Num(2 * 150 - a.v) ELSE a

WholeNorm(x, y) ==
  CHOOSE n \in 0 .. (AbsInt(x) + AbsInt(y)) : n * n = x * x + y * y

\* ret = 180 - (numerator / denominator) * 180, in half degrees
IsYawOfRatio(ret, numerator, denominator) ==
  /\ IsNum(ret)
  /\ (360 - ret.v) * denominator = 360 * numerator

IsPrefix(before, after) ==
  /\ Len(before) <= Len(after)
  /\ SubSeq(after, 1, Len(before)) = before

\* C15: a tick for one servo changes neither the buffers nor the status of
\* the other two servos, and a frame only appends to the buffers and changes
\* no servo status.
C15_SignalsIsolated ==
  [][/\ \A s \in Servos :
          (obs'.op = "tick" /\ obs'.servo = s)
            => /\ s # "left" => left_angles' = left_angles
               /\ s # "right" => right_angles' = right_angles
               /\ s # "faceYaw" => faceYaws' = faceYaws
               /\ \A t \in Servos \ {s} : status'[t] = status[t]
     /\ (obs'.op = "frame" /\ nframes' # nframes)
          => /\ IsPrefix(left_angles, left_angles')
             /\ IsPrefix(right_angles, right_angles')
             /\ IsPrefix(faceYaws, faceYaws')
             /\ status' = status
    ]_vars

\* C15: a tick that drained one buffer while the other two still hold the
\* samples a frame pushed
W15_OthersKeepTheirSamples ==
  /\ IsTick
  /\ obs.servo = "left"
  /\ obs.angles # <<>>
  /\ left_angles = <<>>
  /\ right_angles # <<>>
  /\ faceYaws # <<>>

====
